---- MODULE Spec2Model ----
(***************************************************************************)
(* A model of the taxonomy-constrained normalization and validation        *)
(* pipeline of the Notion finance bot: app/normalizer.py, app/models.py,   *)
(* app/taxonomy.py and the handler of app/telegram_bot.py.                 *)
(*                                                                         *)
(* Python values are represented as follows.                               *)
(*   str            a TLA+ string; text is written in decomposed form      *)
(*                  except for the character "^", which stands for the     *)
(*                  precomposed letter e-grave (U+00E8); "~" stands for    *)
(*                  the combining grave accent (U+0300, category Mn).      *)
(*   list[str]      a sequence of strings                                  *)
(*   set[str]       a set of strings                                       *)
(*   X | None       NoneV, or Just(x)                                      *)
(*   Decimal        an integer number of thousandths on input (amounts are *)
(*                  written with at most three fractional digits), an      *)
(*                  integer number of hundredths once quantized            *)
(*   date           the number of days from date.today() (0 is today)      *)
(***************************************************************************)
(* The field notes of the record plays no part in any check and is left    *)
(* out.                                                                    *)
(***************************************************************************)
EXTENDS Integers, Sequences, FiniteSets, TLC

VARIABLES
    fn,        \* the function applied to args ("none" before the call)
    args,      \* the arguments of a call of a function
    ret,       \* what the call returned
    taxonomy,  \* the singleton of app/taxonomy.py: three lists of names
    swap,      \* the call of set_taxonomy under way: its position and locals
    ids,       \* the identities of the three list objects of the singleton
    schema,    \* the enum lists of the response schema built for the extractor
    llm,       \* where extract_transaction stands with the extractor
    pc,        \* where handle_text stands for the message
    data,      \* the JSON object the extractor answered with
    raw,       \* the dict raw of handle_text
    ext,       \* the result of ExtractedTx.model_validate(raw)
    err,       \* the messages of the exception handle_text caught
    saved,     \* gateway.save_transaction returned for the message
    reply      \* the text sent back to the user

\* the state of the calls of single functions
call == <<fn, args, ret>>

\* the state of handle_text
handler == <<pc, schema, llm, data, raw, ext, err, saved, reply>>

\* the state of the taxonomy store
store == <<taxonomy, swap, ids>>

vars == <<fn, args, ret, taxonomy, swap, ids, pc, schema, llm, data, raw, ext, err, saved, reply>>

---------------------------------------------------------------------------
(* Optional values *)

NoneV == [none |-> TRUE]

Just(x) == [none |-> FALSE, val |-> x]

\* Python's (x or []) for x: list | None
OrEmpty(x) == IF x.none THEN <<>> ELSE x.val

\* Python's (l or None) for a list l
OrNone(l) == IF l = <<>> THEN NoneV ELSE Just(l)

\* bool(x) for x: list | None, or x: str | None
Truthy(x) == IF x.none THEN FALSE ELSE Len(x.val) > 0

---------------------------------------------------------------------------
(* Strings *)

UpperLetters == "ABCDEFGHIJKLMNOPQRSTUVWXYZ"

LowerLetters == "abcdefghijklmnopqrstuvwxyz"

Char(s, i) == SubSeq(s, i, i)

\* the lower-case letter of each upper-case letter
LowerOf == [c \in {Char(UpperLetters, i) : i \in 1..Len(UpperLetters)} |->
               Char(LowerLetters, CHOOSE i \in 1..Len(UpperLetters) : Char(UpperLetters, i) = c)]

\* the upper-case letter of each lower-case letter
UpperOf == [c \in {Char(LowerLetters, i) : i \in 1..Len(LowerLetters)} |->
               Char(UpperLetters, CHOOSE i \in 1..Len(LowerLetters) : Char(LowerLetters, i) = c)]

\* str.lower() on one character
LowerChar(c) == IF c \in DOMAIN LowerOf THEN LowerOf[c] ELSE c

RECURSIVE LowerFrom(_, _)
LowerFrom(s, i) ==
    IF i > Len(s) THEN "" ELSE LowerChar(Char(s, i)) \o LowerFrom(s, i + 1)

\* str.lower()
Lower(s) == LowerFrom(s, 1)

\* str.upper() on one character
UpperChar(c) == IF c \in DOMAIN UpperOf THEN UpperOf[c] ELSE c

RECURSIVE UpperFrom(_, _)
UpperFrom(s, i) ==
    IF i > Len(s) THEN "" ELSE UpperChar(Char(s, i)) \o UpperFrom(s, i + 1)

\* str.upper()
Upper(s) == UpperFrom(s, 1)

\* unicodedata.normalize("NFD", c) on one character
NFDChar(c) == IF c = "^" THEN "e~" ELSE c

\* unicodedata.category(c) != "Mn"
NotMn(c) == c # "~"

RECURSIVE NFDFrom(_, _)
NFDFrom(s, i) ==
    IF i > Len(s) THEN "" ELSE NFDChar(Char(s, i)) \o NFDFrom(s, i + 1)

RECURSIVE DropMnFrom(_, _)
DropMnFrom(s, i) ==
    IF i > Len(s) THEN ""
    ELSE (IF NotMn(Char(s, i)) THEN Char(s, i) ELSE "") \o DropMnFrom(s, i + 1)

_strip_accents_lower(s) == Lower(DropMnFrom(NFDFrom(s, 1), 1))

\* Python's (k in text) for strings
Contains(text, k) ==
    \E i \in 1..(Len(text) - Len(k) + 1) : SubSeq(text, i, i + Len(k) - 1) = k

RECURSIVE LStrip(_)
LStrip(s) == IF Len(s) > 0 /\ Char(s, 1) = " " THEN LStrip(SubSeq(s, 2, Len(s))) ELSE s

RECURSIVE RStrip(_)
RStrip(s) ==
    IF Len(s) > 0 /\ Char(s, Len(s)) = " " THEN RStrip(SubSeq(s, 1, Len(s) - 1)) ELSE s

\* str.strip()
Strip(s) == RStrip(LStrip(s))

\* the elements of a list, as a set
Range(l) == {l[i] : i \in 1..Len(l)}

\* [x for x in l if x in allowed]
RECURSIVE FilterIn(_, _)
FilterIn(l, allowed) ==
    IF l = <<>> THEN <<>>
    ELSE (IF Head(l) \in allowed THEN <<Head(l)>> ELSE <<>>) \o FilterIn(Tail(l), allowed)

---------------------------------------------------------------------------
(* app/normalizer.py: the keyword tables and the heuristics *)

EATING_OUT_HINTS ==
    {"caffe", "caff^", "espresso", "cappuccino", "cornetto", "brioche", "bar",
     "colazione", "pranzo", "cena", "pizzeria", "ristorante", "aperitivo"}

KEYWORD_TO_OUTCOME ==
    << <<{"videogioco", "videogame", "gioco", "gaming", "steam", "epic",
          "epic games", "gog", "uplay", "origin", "playstation store",
          "ps store", "nintendo eshop", "xbox", "game pass"}, "Fun">>,
       <<{"supermercato", "spesa", "esselunga"}, "Supermarket">>,
       <<{"benzina", "carburante", "gas"}, "Benzina">>,
       <<{"parrucchiere", "barbiere", "taglio", "barber"}, "Barbiere">>,
       <<{"palestra", "abbonamento palestra"}, "Palestra">>,
       <<{"farmacia", "medicina", "medicinale"}, "Salute">>,
       <<{"spotify", "netflix", "abbonamento", "subscription"}, "Subscriptions">>,
       <<{"taxi", "treno", "bus", "aereo"}, "Travel">>,
       <<{"olio motore", "cambio olio", "carrozzeria", "assicurazione auto"}, "Car">>,
       <<{"regalo", "donazione", "donation"}, "Gifts & Donations">>,
       <<{"salvadanaio", "winnies"}, "Salvadanaio Winnies">> >>

KEYWORD_TO_INCOME ==
    << <<{"stipendio", "salary"}, "Salary">>,
       <<{"regalo", "gift"}, "Gifts">>,
       <<{"prelievo"}, "Prelievo">>,
       <<{"risparmio car"}, "Risparmio Car">>,
       <<{"risparmio"}, "Risparmio">>,
       <<{"other income"}, "Other Income">> >>

\* any(k in text for k in keywords)
AnyIn(keywords, text) == \E k \in keywords : Contains(text, k)

\* the index of the first TRUE of a list of flags, 0 if there is none: the
\* rule at which a scan of a table in table order returns
FirstHit(hits) ==
    IF \E i \in 1..Len(hits) : hits[i]
    THEN CHOOSE i \in 1..Len(hits) : hits[i] /\ \A h \in 1..(i - 1) : ~hits[h]
    ELSE 0

\* a mutant that stops at the first rule whose keywords match, allowed or not
_infer_outcome_from_desc_NoSkip(description, allowed) ==
    LET text == _strip_accents_lower(description)
        hits == [i \in 1..Len(KEYWORD_TO_OUTCOME) |->
                    AnyIn(KEYWORD_TO_OUTCOME[i][1], text)]
        first == FirstHit(hits)
    IN  IF AnyIn(EATING_OUT_HINTS, text) /\ "Eating Out and Takeway" \in allowed
        THEN Just("Eating Out and Takeway")
        ELSE IF first = 0 \/ KEYWORD_TO_OUTCOME[first][2] \notin allowed THEN NoneV
        ELSE Just(KEYWORD_TO_OUTCOME[first][2])

_infer_outcome_from_desc(description, allowed) ==
    LET text == _strip_accents_lower(description)
        hits == [i \in 1..Len(KEYWORD_TO_OUTCOME) |->
                    /\ AnyIn(KEYWORD_TO_OUTCOME[i][1], text)
                    /\ KEYWORD_TO_OUTCOME[i][2] \in allowed]
        first == FirstHit(hits)
    IN  IF AnyIn(EATING_OUT_HINTS, text) /\ "Eating Out and Takeway" \in allowed
        THEN Just("Eating Out and Takeway")
        ELSE IF first = 0 THEN NoneV ELSE Just(KEYWORD_TO_OUTCOME[first][2])

_infer_income_from_desc(description, allowed) ==
    LET text == _strip_accents_lower(description)
        hits == [i \in 1..Len(KEYWORD_TO_INCOME) |->
                    /\ AnyIn(KEYWORD_TO_INCOME[i][1], text)
                    /\ (allowed = {} \/ KEYWORD_TO_INCOME[i][2] \in allowed)]
        first == FirstHit(hits)
    IN  IF first = 0 THEN NoneV ELSE Just(KEYWORD_TO_INCOME[first][2])

---------------------------------------------------------------------------
(* app/normalizer.py: enforce_xor_categories *)

\* lines 201-207: both lists populated after filtering; a mutant that keeps
\* both sides when the text is ambiguous
XorBoth_KeepBoth(out, inc, text_income, text_outcome) ==
    IF Truthy(text_income)
    THEN <<NoneV, Just(IF inc # <<>> THEN inc ELSE <<text_income.val>>)>>
    ELSE IF Truthy(text_outcome)
    THEN <<Just(IF out # <<>> THEN out ELSE <<text_outcome.val>>), NoneV>>
    ELSE <<Just(out), Just(inc)>>

\* a mutant that asks the outcome heuristic before the income heuristic
XorBoth_OutcomeFirst(out, inc, text_income, text_outcome) ==
    IF Truthy(text_outcome)
    THEN <<Just(IF out # <<>> THEN out ELSE <<text_outcome.val>>), NoneV>>
    ELSE IF Truthy(text_income)
    THEN <<NoneV, Just(IF inc # <<>> THEN inc ELSE <<text_income.val>>)>>
    ELSE <<NoneV, Just(inc)>>

XorBoth(out, inc, text_income, text_outcome) ==
    IF Truthy(text_income)
    THEN <<NoneV, Just(IF inc # <<>> THEN inc ELSE <<text_income.val>>)>>
    ELSE IF Truthy(text_outcome)
    THEN <<Just(IF out # <<>> THEN out ELSE <<text_outcome.val>>), NoneV>>
    ELSE <<NoneV, Just(inc)>>

\* lines 209-214: no list populated after filtering; a mutant that asks the
\* income heuristic first
XorNeither_IncomeFirst(text_income, text_outcome) ==
    IF Truthy(text_income) THEN <<NoneV, Just(<<text_income.val>>)>>
    ELSE IF Truthy(text_outcome) THEN <<Just(<<text_outcome.val>>), NoneV>>
    ELSE <<NoneV, NoneV>>

XorNeither(text_income, text_outcome) ==
    IF Truthy(text_outcome) THEN <<Just(<<text_outcome.val>>), NoneV>>
    ELSE IF Truthy(text_income) THEN <<NoneV, Just(<<text_income.val>>)>>
    ELSE <<NoneV, NoneV>>

\* a mutant in which an income hint in the text overrides a lone outcome list
XorDecide_TextFirst(out, inc, text_income, text_outcome) ==
    IF out # <<>> /\ inc = <<>> /\ ~Truthy(text_income) THEN <<Just(out), NoneV>>
    ELSE IF inc # <<>> /\ out = <<>> /\ ~Truthy(text_outcome) THEN <<NoneV, Just(inc)>>
    ELSE IF out # <<>> /\ inc # <<>> THEN XorBoth(out, inc, text_income, text_outcome)
    ELSE XorNeither(text_income, text_outcome)

\* a mutant in which a hint in the text for the other side overrides a lone
\* list
XorDecide_TextOverrides(out, inc, text_income, text_outcome) ==
    IF out # <<>> /\ inc = <<>>
    THEN (IF Truthy(text_income) THEN <<NoneV, Just(<<text_income.val>>)>>
          ELSE <<Just(out), NoneV>>)
    ELSE IF inc # <<>> /\ out = <<>>
    THEN (IF Truthy(text_outcome) THEN <<Just(<<text_outcome.val>>), NoneV>>
          ELSE <<NoneV, Just(inc)>>)
    ELSE IF out # <<>> /\ inc # <<>> THEN XorBoth(out, inc, text_income, text_outcome)
    ELSE XorNeither(text_income, text_outcome)

\* lines 196-214: the case analysis on the filtered lists
XorDecide(out, inc, text_income, text_outcome) ==
    IF out # <<>> /\ inc = <<>> THEN <<Just(out), NoneV>>
    ELSE IF inc # <<>> /\ out = <<>> THEN <<NoneV, Just(inc)>>
    ELSE IF out # <<>> /\ inc # <<>> THEN XorBoth(out, inc, text_income, text_outcome)
    ELSE XorNeither(text_income, text_outcome)

\* the pair (outcome_out, income_out)
enforce_xor_categories(description, outcome, income, allowed_outcome, allowed_income) ==
    LET out == FilterIn(OrEmpty(outcome), allowed_outcome)
        inc == FilterIn(OrEmpty(income), allowed_income)
        text_income == _infer_income_from_desc(description, allowed_income)
        text_outcome == _infer_outcome_from_desc(description, allowed_outcome)
    IN  XorDecide(out, inc, text_income, text_outcome)

---------------------------------------------------------------------------
(* app/normalizer.py: normalize_account and normalize_outcome *)

ACCOUNT_SYNONYMS ==
    [k \in {"hype next", "hype card", "contante", "cash", "poste"} |->
        CASE k = "hype next" -> "Hype"
          [] k = "hype card" -> "Hype"
          [] k = "contante" -> "Contanti"
          [] k = "cash" -> "Contanti"
          [] k = "poste" -> "Poste Italiane"]

OUTCOME_SYNONYMS ==
    [k \in {"other", "altro", "donation", "donazione"} |->
        CASE k = "other" -> "Other Outcome"
          [] k = "altro" -> "Other Outcome"
          [] k = "donation" -> "Gifts & Donations"
          [] k = "donazione" -> "Gifts & Donations"]

\* acc: str | None; the result is str | None
normalize_account(acc, allowed) ==
    IF ~Truthy(acc) THEN NoneV
    ELSE LET key == Lower(Strip(acc.val))
         IN  IF key \in DOMAIN ACCOUNT_SYNONYMS /\ ACCOUNT_SYNONYMS[key] \in allowed
             THEN Just(ACCOUNT_SYNONYMS[key])
             ELSE IF Strip(acc.val) \in allowed THEN Just(Strip(acc.val))
             ELSE NoneV

\* lines 148-152: synonyms mapped, only allowed names kept
RECURSIVE MapSynonyms(_, _)
MapSynonyms(l, allowed) ==
    IF l = <<>> THEN <<>>
    ELSE LET c == Head(l)
             key == Lower(Strip(c))
             c2 == IF key \in DOMAIN OUTCOME_SYNONYMS THEN OUTCOME_SYNONYMS[key]
                   ELSE Strip(c)
         IN  (IF c2 \in allowed THEN <<c2>> ELSE <<>>) \o MapSynonyms(Tail(l), allowed)

\* lines 166-171: duplicates dropped, order kept
RECURSIVE Dedup(_, _)
Dedup(l, seen) ==
    IF l = <<>> THEN <<>>
    ELSE IF Head(l) \in seen THEN Dedup(Tail(l), seen)
    ELSE <<Head(l)>> \o Dedup(Tail(l), seen \cup {Head(l)})

\* outcome_list: list | None; the result is list | None
normalize_outcome(outcome_list, description, allowed) ==
    LET fixed1 == MapSynonyms(OrEmpty(outcome_list), allowed)
        inferred == _infer_outcome_from_desc(description, allowed)
        fixed2 == IF fixed1 = <<>> /\ Truthy(inferred) /\ inferred.val \in allowed
                  THEN Append(fixed1, inferred.val)
                  ELSE fixed1
        looks_income == ~_infer_income_from_desc(description, {}).none
        fixed3 == IF fixed2 = <<>> /\ ~looks_income /\ "Other Outcome" \in allowed
                  THEN Append(fixed2, "Other Outcome")
                  ELSE fixed2
    IN  OrNone(Dedup(fixed3, {}))

---------------------------------------------------------------------------
(* app/models.py: _canon_list *)

\* The argument v: object is a record [kind, s, l]: None (kind "none"), the
\* string s (kind "str"), the list of strings l (kind "list") or any other
\* object (kind "other").
NoneObj == [kind |-> "none", s |-> "", l |-> <<>>]

StrObj(x) == [kind |-> "str", s |-> x, l |-> <<>>]

ListObj(x) == [kind |-> "list", s |-> "", l |-> x]

OtherObj == [kind |-> "other", s |-> "", l |-> <<>>]

\* A call either returns a value or raises ValueError with a message.
Return(x) == [raised |-> FALSE, val |-> x]

Raise(msg) == [raised |-> TRUE, msg |-> msg]

\* list | None as an argument v
AsObject(x) == IF x.none THEN NoneObj ELSE ListObj(x.val)

\* sep.join(l)
RECURSIVE Join(_, _)
Join(l, sep) ==
    IF l = <<>> THEN ""
    ELSE IF Len(l) = 1 THEN l[1]
    ELSE l[1] \o sep \o Join(Tail(l), sep)

\* s.split(","), scanning from position i with the current piece cur
RECURSIVE SplitFrom(_, _, _)
SplitFrom(s, i, cur) ==
    IF i > Len(s) THEN <<cur>>
    ELSE IF Char(s, i) = "," THEN <<cur>> \o SplitFrom(s, i + 1, "")
    ELSE SplitFrom(s, i + 1, cur \o Char(s, i))

Split(s) == SplitFrom(s, 1, "")

\* [x.strip() for x in l if x.strip()]
RECURSIVE StripNonEmpty(_)
StripNonEmpty(l) ==
    IF l = <<>> THEN <<>>
    ELSE (IF Strip(Head(l)) # "" THEN <<Strip(Head(l))>> ELSE <<>>)
         \o StripNonEmpty(Tail(l))

\* key in canon_map, for canon_map = {c.lower(): c for c in allowed}
canon_map_has(allowed, key) == \E i \in 1..Len(allowed) : Lower(allowed[i]) = key

\* a mutant that returns the key in place of the official spelling
canon_map_get_key(allowed, key) == key

\* canon_map[key]: a later entry of allowed overwrites an earlier one
canon_map_get(allowed, key) ==
    allowed[CHOOSE i \in 1..Len(allowed) :
                /\ Lower(allowed[i]) = key
                /\ \A j \in (i + 1)..Len(allowed) : Lower(allowed[j]) # key]

\* lines 38-46: the loop over items, from the lists out and unknown so far
RECURSIVE CanonLoop(_, _, _, _)
CanonLoop(items, allowed, out, unknown) ==
    IF items = <<>> THEN [out |-> out, unknown |-> unknown]
    ELSE LET it == Head(items)
             key == Lower(it)
         IN  IF ~canon_map_has(allowed, key)
             THEN CanonLoop(Tail(items), allowed, out, Append(unknown, it))
             ELSE LET val == canon_map_get(allowed, key)
                  IN  IF val \notin Range(out)
                      THEN CanonLoop(Tail(items), allowed, Append(out, val), unknown)
                      ELSE CanonLoop(Tail(items), allowed, out, unknown)

\* a mutant that returns the tokens that matched and drops the others
CanonResult_Partial(out, unknown) == Return(OrNone(out))

\* lines 48-52
CanonResult(out, unknown) ==
    IF unknown # <<>>
    THEN Raise("unknown category: " \o Join(unknown, ", "))
    ELSE Return(OrNone(out))

_canon_list(v, allowed) ==
    IF v.kind = "none" THEN Return(NoneV)
    ELSE IF v.kind = "list" /\ v.l = <<>> THEN Return(NoneV)
    ELSE IF v.kind = "str" /\ v.s = "" THEN Return(NoneV)
    ELSE IF v.kind \notin {"str", "list"}
    THEN Raise("categories must be list[str] or a comma-separated string")
    ELSE LET items == IF v.kind = "str" THEN StripNonEmpty(Split(v.s))
                      ELSE StripNonEmpty(v.l)
             r == CanonLoop(items, allowed, <<>>, <<>>)
         IN  CanonResult(r.out, r.unknown)

---------------------------------------------------------------------------
(* app/models.py: ExtractedTx *)

ALLOWED_CURRENCIES == {"EUR"}

description_not_empty(v) ==
    IF Strip(v) = "" THEN Raise("description must not be empty") ELSE Return(Strip(v))

\* a mutant that drops the third fractional digit (ROUND_DOWN)
amount_positive_RoundDown(v) ==
    IF v <= 0 THEN Raise("amount must be > 0") ELSE Return(v \div 10)

\* v in thousandths; quantize(Decimal("0.01"), ROUND_HALF_UP) in hundredths
amount_positive(v) ==
    IF v <= 0 THEN Raise("amount must be > 0") ELSE Return((v + 5) \div 10)

currency_ok(v) ==
    LET vv == Upper(Strip(v))
    IN  IF vv \notin ALLOWED_CURRENCIES
        THEN Raise("unsupported currency: " \o v)
        ELSE Return(vv)

\* a mutant that accepts every account
account_ok_Any(v) == Return(Strip(v))

account_ok(v) ==
    LET acc == Strip(v)
        allowed_accounts == Range(taxonomy.accounts)
    IN  IF acc \notin allowed_accounts
        THEN Raise("unsupported account: " \o acc)
        ELSE Return(acc)

\* a mutant whose window ends two days after today
date_in_reasonable_range_Short(d) ==
    IF d > 0 + 2 THEN Raise("date too far in the future")
    ELSE IF d < 0 - 366 THEN Raise("date too far in the past")
    ELSE Return(d)

date_in_reasonable_range(d) ==
    IF d > 0 + 3 THEN Raise("date too far in the future")
    ELSE IF d < 0 - 366 THEN Raise("date too far in the past")
    ELSE Return(d)

canon_outcome(v) == _canon_list(v, taxonomy.outcome_categories)

canon_income(v) == _canon_list(v, taxonomy.income_categories)

\* a mutant without the check that one side is given
xor_income_outcome_NoMissing(outcome_categories, income_categories) ==
    LET has_out == Truthy(outcome_categories)
        has_inc == Truthy(income_categories)
    IN  IF has_out /\ has_inc
        THEN Raise("a transaction cannot be both income and outcome")
        ELSE Return(TRUE)

xor_income_outcome(outcome_categories, income_categories) ==
    LET has_out == Truthy(outcome_categories)
        has_inc == Truthy(income_categories)
    IN  IF has_out /\ has_inc
        THEN Raise("a transaction cannot be both income and outcome")
        ELSE IF ~(has_out \/ has_inc)
        THEN Raise("provide at least one of outcome_categories or income_categories")
        ELSE Return(TRUE)

\* the message of a raised result as a list of one, nothing for a return
ErrorOf(r) == IF r.raised THEN <<r.msg>> ELSE <<>>

\* ExtractedTx.model_validate(obj): the field validators run in the order of
\* the fields and their errors are collected; the model validator runs only
\* when no field failed. The result is [ok, errors, tx].
model_validate(obj) ==
    LET description == description_not_empty(obj.description)
        amount == amount_positive(obj.amount)
        currency == currency_ok(obj.currency)
        account == account_ok(obj.account)
        date == date_in_reasonable_range(obj.date)
        outcome == canon_outcome(obj.outcome_categories)
        income == canon_income(obj.income_categories)
        errors == ErrorOf(description) \o ErrorOf(amount) \o ErrorOf(currency)
                  \o ErrorOf(account) \o ErrorOf(date) \o ErrorOf(outcome)
                  \o ErrorOf(income)
    IN  IF errors # <<>> THEN [ok |-> FALSE, errors |-> errors]
        ELSE LET after == xor_income_outcome(outcome.val, income.val)
             IN  IF after.raised THEN [ok |-> FALSE, errors |-> <<after.msg>>]
                 ELSE [ok |-> TRUE, errors |-> <<>>,
                       tx |-> [description |-> description.val,
                               amount |-> amount.val,
                               currency |-> currency.val,
                               account |-> account.val,
                               date |-> date.val,
                               outcome_categories |-> outcome.val,
                               income_categories |-> income.val]]

\* app/llm.py 36, 45, 54: the enum lists of the response schema
_build_schema ==
    [accounts |-> taxonomy.accounts,
     outcome_categories |-> taxonomy.outcome_categories,
     income_categories |-> taxonomy.income_categories]

---------------------------------------------------------------------------
(* Bounds and input domains *)

\* the longest candidate category list handed to enforce_xor_categories
MaxCand == 2

\* all lists over S of length at most n
ListsUpTo(S, n) == UNION {[1..k -> S] : k \in 0..n}

\* list | None
OptLists(S, n) == {NoneV} \cup {Just(l) : l \in ListsUpTo(S, n)}

XorDescriptions ==
    {"bolletta luce", "Stipendio", "benzina", "stipendio benzina", "regalo",
     "caffe~ steam", "risparmio car"}

XorOutcomeNames == {"Fun", "Benzina", "Eating Out and Takeway", "Gifts & Donations"}

XorIncomeNames == {"Salary", "Gifts"}

XorArgs ==
    [description : XorDescriptions,
     outcome : OptLists({"Fun", "Benzina"}, MaxCand),
     income : OptLists(XorIncomeNames, MaxCand),
     allowed_outcome : SUBSET XorOutcomeNames,
     allowed_income : SUBSET XorIncomeNames]

\* the longest list of tokens handed to _canon_list
MaxTok == 3

CanonTokens == {"fun", "Fun", " Benzina ", "bogus", "Nope", " "}

CanonAllowed ==
    {<<>>, <<"Fun", "Benzina">>, <<"Benzina", "Fun", "Other Outcome">>,
     <<"Fun", "FUN">>}

\* the arguments of _canon_list; src is the list of tokens v was written from
CanonArgs ==
    {[v |-> NoneObj, src |-> <<>>, allowed |-> a] : a \in CanonAllowed}
    \cup {[v |-> OtherObj, src |-> <<>>, allowed |-> a] : a \in CanonAllowed}
    \cup {[v |-> ListObj(l), src |-> l, allowed |-> a] :
             l \in ListsUpTo(CanonTokens, MaxTok), a \in CanonAllowed}
    \cup {[v |-> StrObj(Join(l, ",")), src |-> l, allowed |-> a] :
             l \in ListsUpTo(CanonTokens, MaxTok), a \in CanonAllowed}

\* the taxonomy before set_taxonomy is called (app/taxonomy.py:16)
EmptyTaxonomy ==
    [accounts |-> <<>>, outcome_categories |-> <<>>, income_categories |-> <<>>]

\* taxonomies read from the workspace at start
LoadedTaxonomy ==
    [accounts |-> <<"Hype", "Contanti">>,
     outcome_categories |-> <<"Fun", "Benzina", "Other Outcome">>,
     income_categories |-> <<"Salary", "Gifts">>]

SmallTaxonomy ==
    [accounts |-> <<"Contanti">>,
     outcome_categories |-> <<"Benzina">>,
     income_categories |-> <<"Salary">>]

\* the taxonomy of the scenario of letter case
ScenarioTaxonomy ==
    [accounts |-> <<"Cash">>,
     outcome_categories |-> <<"Groceries", "Dining">>,
     income_categories |-> <<"Salary">>]

Taxonomies == {EmptyTaxonomy, LoadedTaxonomy, SmallTaxonomy, ScenarioTaxonomy}

\* category fields as an extractor or a caller may write them
RawCategories(S) ==
    {NoneObj} \cup {ListObj(l) : l \in ListsUpTo(S, MaxCand)}

\* the records handed to ExtractedTx.model_validate
ValidateArgs ==
    [description : {"benzina", " "},
     amount : {0, 12999},
     currency : {"eur", "USD"},
     account : {"Hype ", "Bank"},
     date : {0, 4},
     outcome_categories : RawCategories({"benzina", "Bogus"}) \cup {StrObj("Fun, benzina")},
     income_categories : RawCategories({"Salary", "Bogus"})]

\* the candidate of the scenario of letter case
ScenarioCandidate ==
    [description |-> "bought bread", amount |-> 12999, currency |-> "EUR",
     account |-> "cash", date |-> 0,
     outcome_categories |-> Just(<<"groceries">>), income_categories |-> NoneV]

\* a candidate with two income categories, and one with three outcome
\* categories
LongCandidates ==
    {[description |-> "bolletta luce", amount |-> 12999, currency |-> "EUR",
      account |-> "cash", date |-> 0,
      outcome_categories |-> NoneV,
      income_categories |-> Just(<<"Salary", "Gifts">>)],
     [description |-> "bolletta luce", amount |-> 12999, currency |-> "EUR",
      account |-> "cash", date |-> 0,
      outcome_categories |-> Just(<<"Fun", "Benzina", "Other Outcome">>),
      income_categories |-> NoneV]}

\* the JSON objects the extractor may answer with
LlmData ==
    [description : {"bolletta luce", "rimborso benzina", "Stipendio", "regalo"},
     amount : {0, 12999},
     currency : {"EUR"},
     account : {"cash", "Bank"},
     date : {0},
     outcome_categories : OptLists({"Benzina", "Bogus"}, MaxCand),
     income_categories : OptLists({"Salary", "Bogus"}, MaxCand)]
    \cup {ScenarioCandidate} \cup LongCandidates

\* the descriptions and allowed sets handed to _infer_outcome_from_desc
InferDescriptions ==
    {"cena e benzina", "Barbiere", "spesa benzina", "GAS", "regalo",
     "bolletta luce", "Caff^ steam", "netflix in taxi", "abbonamento palestra",
     "taglio e medicina"}

InferCategories ==
    {"Eating Out and Takeway", "Fun", "Supermarket", "Benzina", "Barbiere",
     "Palestra", "Subscriptions"}

InferArgs == [description : InferDescriptions, allowed : SUBSET InferCategories]

\* the largest amount handed to amount_positive, in thousandths
MaxAmount == 1100

\* amounts from -0.050 to MaxAmount thousandths
AmountArgs == {[v |-> n] : n \in (0 - 50)..MaxAmount}

\* the farthest date handed to date_in_reasonable_range, in days from today
MaxDays == 400

DateArgs == {[d |-> n] : n \in (0 - MaxDays)..MaxDays}

\* the number of calls of set_taxonomy made while messages are handled
MaxSwaps == 1

\* A source handed to set_taxonomy is a dict; each field of the record below
\* holds the values under the three keys set_taxonomy looks up for it, in
\* lookup order (accounts, Accounts, account; outcome_categories, Outcome,
\* outcome; income_categories, Income, income), a missing key being None.
Key(v) == <<v, NoneObj, NoneObj>>

\* the sources handed to set_taxonomy while messages are handled
SwapSources ==
    {[accounts |-> Key(ListObj(<<" Contanti ">>)),
      outcome_categories |-> Key(ListObj(<<"Benzina", " ">>)),
      income_categories |-> Key(ListObj(<<"Salary">>))],
     [accounts |-> Key(ListObj(<<"Cash">>)),
      outcome_categories |-> Key(ListObj(<<"Groceries", "Dining">>)),
      income_categories |-> Key(NoneObj)]}

\* the values a source may hold for one set
SetValues ==
    {Key(NoneObj), Key(ListObj(<<>>)), Key(StrObj("Cash")),
     Key(ListObj(<<" Cash ", " ", "Bank">>)), Key(ListObj(<<"Cash", "Cash">>)),
     Key(ListObj(<<"Cash", "Cash ">>)),
     <<ListObj(<<>>), ListObj(<<"Dining">>), NoneObj>>,
     <<NoneObj, StrObj(""), ListObj(<<"Salary", "Gifts">>)>>}

\* the sources handed to set_taxonomy on its own
SetSources ==
    {[accounts |-> v, outcome_categories |-> Key(ListObj(<<"Fun">>)),
      income_categories |-> Key(NoneObj)] : v \in SetValues}
    \cup {[accounts |-> Key(ListObj(<<"Hype">>)), outcome_categories |-> v,
           income_categories |-> Key(ListObj(<<"Salary">>))] : v \in SetValues}
    \cup {[accounts |-> Key(NoneObj), outcome_categories |-> Key(StrObj(" Fun ")),
           income_categories |-> v] : v \in SetValues}

\* the identities of the list objects the singleton was constructed with
ListIds == [accounts |-> 1, outcome_categories |-> 2, income_categories |-> 3]

\* no call of set_taxonomy is under way; n counts the calls made so far
NoSwap ==
    [pc |-> "idle", accounts |-> <<>>, outcome |-> <<>>, income |-> <<>>,
     before |-> EmptyTaxonomy, n |-> 0]

\* extract_transaction has not called _call_llm; calls counts the calls of
\* _call_llm for the message, reqs the completion requests of the current call
LlmIdle == [pc |-> "idle", calls |-> 0, reqs |-> 0]

\* no record yet
NoRecord == [none |-> TRUE]

\* no message is being handled
HandlerOff ==
    /\ pc = "off" /\ schema = NoRecord /\ llm = LlmIdle /\ data = NoRecord /\ raw = NoRecord /\ ext = NoRecord
    /\ err = <<>> /\ saved = FALSE /\ reply = ""

---------------------------------------------------------------------------
(* Calls of enforce_xor_categories on every input of XorArgs *)

XorInit ==
    fn = "none" /\ args \in XorArgs /\ ret = NoneV /\ taxonomy = EmptyTaxonomy /\ swap = NoSwap /\ ids = ListIds /\ HandlerOff

XorCall ==
    /\ fn = "none"
    /\ fn' = "enforce_xor_categories"
    /\ ret' = enforce_xor_categories(args.description, args.outcome, args.income,
                                     args.allowed_outcome, args.allowed_income)
    /\ UNCHANGED <<args, store, handler>>

XorNext == XorCall

SpecXor == XorInit /\ [][XorNext]_vars

---------------------------------------------------------------------------
(* Calls of _infer_outcome_from_desc on every input of InferArgs *)

InferInit ==
    fn = "none" /\ args \in InferArgs /\ ret = NoneV /\ taxonomy = EmptyTaxonomy /\ swap = NoSwap /\ ids = ListIds /\ HandlerOff

InferCall ==
    /\ fn = "none"
    /\ fn' = "_infer_outcome_from_desc"
    /\ ret' = _infer_outcome_from_desc(args.description, args.allowed)
    /\ UNCHANGED <<args, store, handler>>

InferNext == InferCall

SpecInfer == InferInit /\ [][InferNext]_vars

---------------------------------------------------------------------------
(* Calls of _canon_list on every input of CanonArgs *)

CanonInit ==
    fn = "none" /\ args \in CanonArgs /\ ret = NoneV /\ taxonomy = EmptyTaxonomy /\ swap = NoSwap /\ ids = ListIds /\ HandlerOff

CanonCall ==
    /\ fn = "none"
    /\ fn' = "_canon_list"
    /\ ret' = _canon_list(args.v, args.allowed)
    /\ UNCHANGED <<args, store, handler>>

CanonNext == CanonCall

SpecCanon == CanonInit /\ [][CanonNext]_vars

---------------------------------------------------------------------------
(* Calls of ExtractedTx.model_validate on every record of ValidateArgs,     *)
(* under every taxonomy of Taxonomies                                       *)

ValidateInit ==
    /\ fn = "none" /\ args \in ValidateArgs /\ ret = NoneV
    /\ taxonomy \in Taxonomies
    /\ swap = NoSwap /\ ids = ListIds /\ HandlerOff

ValidateCall ==
    /\ fn = "none"
    /\ fn' = "model_validate"
    /\ ret' = model_validate(args)
    /\ UNCHANGED <<args, store, handler>>

ValidateNext == ValidateCall

SpecValidate == ValidateInit /\ [][ValidateNext]_vars

---------------------------------------------------------------------------
(* Calls of ExtractedTx.amount_positive on every amount of AmountArgs *)

AmountInit ==
    fn = "none" /\ args \in AmountArgs /\ ret = NoneV /\ taxonomy = EmptyTaxonomy /\ swap = NoSwap /\ ids = ListIds /\ HandlerOff

AmountCall ==
    /\ fn = "none"
    /\ fn' = "amount_positive"
    /\ ret' = amount_positive(args.v)
    /\ UNCHANGED <<args, store, handler>>

AmountNext == AmountCall

SpecAmount == AmountInit /\ [][AmountNext]_vars

---------------------------------------------------------------------------
(* Calls of ExtractedTx.date_in_reasonable_range on every date of DateArgs *)

DateInit ==
    fn = "none" /\ args \in DateArgs /\ ret = NoneV /\ taxonomy = EmptyTaxonomy /\ swap = NoSwap /\ ids = ListIds /\ HandlerOff

DateCall ==
    /\ fn = "none"
    /\ fn' = "date_in_reasonable_range"
    /\ ret' = date_in_reasonable_range(args.d)
    /\ UNCHANGED <<args, store, handler>>

DateNext == DateCall

SpecDate == DateInit /\ [][DateNext]_vars

---------------------------------------------------------------------------
(* app/telegram_bot.py: handle_text on one text message, after               *)
(* bootstrap_taxonomy has loaded the taxonomy                                *)

Init ==
    /\ fn = "none" /\ args = NoneV /\ ret = NoneV
    /\ taxonomy \in Taxonomies /\ swap = NoSwap /\ ids = ListIds
    /\ pc = "start" /\ schema = NoRecord /\ llm = LlmIdle /\ data = NoRecord /\ raw = NoRecord /\ ext = NoRecord
    /\ err = <<>> /\ saved = FALSE /\ reply = ""

\* line 64 and app/llm.py 283-296: extract_transaction builds the response
\* schema from the taxonomy and awaits the extractor
BuildSchema ==
    /\ pc = "start"
    /\ schema' = _build_schema
    /\ pc' = "awaiting"
    /\ UNCHANGED <<call, store, llm, data, raw, ext, err, saved, reply>>

\* app/llm.py 322-337: the extractor answers with a JSON object and
\* extract_transaction enforces the XOR on it
Extract ==
    /\ pc = "awaiting"
    /\ \E d \in LlmData :
        LET fixed == enforce_xor_categories(d.description, d.outcome_categories,
                                            d.income_categories,
                                            Range(taxonomy.outcome_categories),
                                            Range(taxonomy.income_categories))
        IN  /\ data' = d
            /\ raw' = [d EXCEPT !.outcome_categories = fixed[1],
                                !.income_categories = fixed[2]]
    /\ pc' = "extracted"
    /\ UNCHANGED <<call, store, schema, llm, ext, err, saved, reply>>

\* line 64: extract_transaction raises (the extractor fails twice, or its
\* answer is no JSON object)
ExtractFails ==
    /\ pc = "awaiting"
    /\ err' = <<"LLM returned non-object JSON">>
    /\ pc' = "error"
    /\ UNCHANGED <<call, store, schema, llm, data, raw, ext, saved, reply>>

\* lines 67-75
Normalize ==
    /\ pc = "extracted"
    /\ LET account == normalize_account(Just(raw.account), Range(taxonomy.accounts))
           outcome == normalize_outcome(raw.outcome_categories, raw.description,
                                        Range(taxonomy.outcome_categories))
       IN  raw' = [raw EXCEPT !.account = IF Truthy(account) THEN account.val ELSE @,
                              !.outcome_categories = outcome]
    /\ pc' = "normalized"
    /\ UNCHANGED <<call, store, schema, llm, data, ext, err, saved, reply>>

\* lines 78-86
EnforceXor ==
    /\ pc = "normalized"
    /\ LET fixed == enforce_xor_categories(raw.description, raw.outcome_categories,
                                           raw.income_categories,
                                           Range(taxonomy.outcome_categories),
                                           Range(taxonomy.income_categories))
       IN  raw' = [raw EXCEPT !.outcome_categories = fixed[1],
                              !.income_categories = fixed[2]]
    /\ pc' = "xored"
    /\ UNCHANGED <<call, store, schema, llm, data, ext, err, saved, reply>>

\* a mutant that goes on to the next stage whatever validation says
Validate_GoesOn ==
    /\ pc = "xored"
    /\ LET r == model_validate(
                    [raw EXCEPT !.outcome_categories = AsObject(@),
                                !.income_categories = AsObject(@)])
       IN  /\ ext' = r
           /\ pc' = "validated"
           /\ err' = r.errors
    /\ UNCHANGED <<call, store, schema, llm, data, raw, saved, reply>>

\* lines 89-92: validation, then the payload built from the validated record
Validate ==
    /\ pc = "xored"
    /\ LET r == model_validate(
                    [raw EXCEPT !.outcome_categories = AsObject(@),
                                !.income_categories = AsObject(@)])
       IN  /\ ext' = r
           /\ pc' = IF r.ok THEN "validated" ELSE "error"
           /\ err' = r.errors
    /\ UNCHANGED <<call, store, schema, llm, data, raw, saved, reply>>

\* line 95: gateway.save_transaction returns the url of the page
Save ==
    /\ pc = "validated"
    /\ saved' = TRUE
    /\ pc' = "saved"
    /\ UNCHANGED <<call, store, schema, llm, data, raw, ext, err, reply>>

\* line 95: gateway.save_transaction raises
SaveFails ==
    /\ pc = "validated"
    /\ err' = <<"notion: request failed">>
    /\ pc' = "error"
    /\ UNCHANGED <<call, store, schema, llm, data, raw, ext, saved, reply>>

\* lines 98-110
ReplyOk ==
    /\ pc = "saved"
    /\ reply' = "Spesa/Movimento registrato"
    /\ pc' = "done"
    /\ UNCHANGED <<call, store, schema, llm, data, raw, ext, err, saved>>

\* line 110: msg.reply_html raises
ReplyOkFails ==
    /\ pc = "saved"
    /\ err' = <<"telegram: request failed">>
    /\ pc' = "error"
    /\ UNCHANGED <<call, store, schema, llm, data, raw, ext, saved, reply>>

\* x in str(e)
InMessage(x) == \E i \in 1..Len(err) : Contains(err[i], x)

\* lines 114-126
user_msg ==
    IF InMessage("unsupported account") THEN "Account non valido"
    ELSE IF InMessage("unknown category") \/ InMessage("provide at least one")
    THEN "Categoria non riconosciuta"
    ELSE IF InMessage("amount must be > 0") THEN "L'importo deve essere maggiore di 0"
    ELSE IF InMessage("date too far") THEN "La data sembra troppo lontana"
    ELSE "Non sono riuscito a registrare"

\* lines 112-127
ReplyError ==
    /\ pc = "error"
    /\ reply' = user_msg
    /\ pc' = "done"
    /\ UNCHANGED <<call, store, schema, llm, data, raw, ext, err, saved>>

Next ==
    \/ BuildSchema
    \/ Extract
    \/ ExtractFails
    \/ Normalize
    \/ EnforceXor
    \/ Validate
    \/ Save
    \/ SaveFails
    \/ ReplyOk
    \/ ReplyOkFails
    \/ ReplyError

Spec == Init /\ [][Next]_vars

---------------------------------------------------------------------------
(* app/llm.py: the attempts of extract_transaction, step by step. The       *)
(* actions Extract and ExtractFails of handle_text are the two ways out.    *)

\* lines 294 and 257-276: the first call of _call_llm issues its first
\* completion request
CallLlm ==
    /\ pc = "awaiting" /\ llm.pc = "idle"
    /\ llm' = [pc |-> "request", calls |-> 1, reqs |-> 1]
    /\ UNCHANGED <<call, store, pc, schema, data, raw, ext, err, saved, reply>>

\* lines 270-276, 280: acompletion returns a response, which _call_llm returns
RequestReturns ==
    /\ llm.pc = "request"
    /\ llm' = [llm EXCEPT !.pc = "returned"]
    /\ UNCHANGED <<call, store, pc, schema, data, raw, ext, err, saved, reply>>

\* a mutant that catches UnsupportedParamsError of the retried request too
RequestUnsupported_CaughtAgain ==
    /\ llm.pc = "request"
    /\ llm' = [llm EXCEPT !.pc = IF llm.reqs <= 2 THEN "unsupported" ELSE "raised"]
    /\ UNCHANGED <<call, store, pc, schema, data, raw, ext, err, saved, reply>>

\* lines 268-277: acompletion raises UnsupportedParamsError, which is caught
\* for the first request only
RequestUnsupported ==
    /\ llm.pc = "request"
    /\ llm' = [llm EXCEPT !.pc = IF llm.reqs = 1 THEN "unsupported" ELSE "raised"]
    /\ UNCHANGED <<call, store, pc, schema, data, raw, ext, err, saved, reply>>

\* lines 278-280: the request is issued again with drop_params
RetryDropParams ==
    /\ llm.pc = "unsupported"
    /\ llm' = [llm EXCEPT !.pc = "request", !.reqs = @ + 1]
    /\ UNCHANGED <<call, store, pc, schema, data, raw, ext, err, saved, reply>>

\* acompletion raises any other exception, which _call_llm lets through
RequestRaises ==
    /\ llm.pc = "request"
    /\ llm' = [llm EXCEPT !.pc = "raised"]
    /\ UNCHANGED <<call, store, pc, schema, data, raw, ext, err, saved, reply>>

\* lines 295, 308: resp.choices[0].message.content is read
ContentRead ==
    /\ llm.pc = "returned"
    /\ llm' = [llm EXCEPT !.pc = "content"]
    /\ UNCHANGED <<call, store, pc, schema, data, raw, ext, err, saved, reply>>

\* lines 295, 308: the response holds no choice, and the read raises
ContentRaises ==
    /\ llm.pc = "returned"
    /\ llm' = [llm EXCEPT !.pc = "raised"]
    /\ UNCHANGED <<call, store, pc, schema, data, raw, ext, err, saved, reply>>

\* lines 296-307: the first attempt raised; _call_llm is called again with
\* the reminder
Fallback ==
    /\ llm.pc = "raised" /\ llm.calls = 1
    /\ llm' = [pc |-> "request", calls |-> 2, reqs |-> 1]
    /\ UNCHANGED <<call, store, pc, schema, data, raw, ext, err, saved, reply>>

\* lines 298-308: the fallback attempt raised, outside any try block
FallbackRaises ==
    /\ llm.pc = "raised" /\ llm.calls = 2
    /\ ExtractFails

\* lines 310-324: the content is not JSON or not a JSON object (or is None)
ContentRejected ==
    /\ llm.pc = "content"
    /\ ExtractFails

\* lines 322-337: the content is a JSON object
ContentAccepted ==
    /\ llm.pc = "content"
    /\ Extract

ExtractInit ==
    /\ fn = "none" /\ args = NoneV /\ ret = NoneV
    /\ taxonomy = LoadedTaxonomy /\ swap = NoSwap /\ ids = ListIds
    /\ pc = "start" /\ schema = NoRecord /\ llm = LlmIdle /\ data = NoRecord
    /\ raw = NoRecord /\ ext = NoRecord /\ err = <<>> /\ saved = FALSE /\ reply = ""

ExtractNext ==
    \/ BuildSchema
    \/ CallLlm
    \/ RequestReturns
    \/ RequestUnsupported
    \/ RetryDropParams
    \/ RequestRaises
    \/ ContentRead
    \/ ContentRaises
    \/ Fallback
    \/ FallbackRaises
    \/ ContentRejected
    \/ ContentAccepted

\* every request to the extractor is answered or fails, and the handler is
\* scheduled
SpecExtract == ExtractInit /\ [][ExtractNext]_vars /\ WF_vars(ExtractNext)

---------------------------------------------------------------------------
(* app/taxonomy.py: set_taxonomy, called by a client of the module on       *)
(* another thread while handle_text handles a message. The three slice      *)
(* assignments of lines 56-58 are three steps, and the steps of the handler *)
(* may be scheduled between them.                                           *)

\* bool(v) for a value of a dict
ObjTruthy(v) ==
    IF v.kind = "none" THEN FALSE
    ELSE IF v.kind = "str" THEN v.s # ""
    ELSE IF v.kind = "list" THEN v.l # <<>>
    ELSE TRUE

\* lines 40-48: src.get(k1) or src.get(k2) or src.get(k3) or []
FirstTruthy(keys) ==
    IF ObjTruthy(keys[1]) THEN keys[1]
    ELSE IF ObjTruthy(keys[2]) THEN keys[2]
    ELSE IF ObjTruthy(keys[3]) THEN keys[3]
    ELSE ListObj(<<>>)

\* lines 19-25
_coerce_iter(x) ==
    IF x.kind = "none" THEN <<>>
    ELSE IF x.kind = "list" THEN x.l
    ELSE <<x.s>>

\* lines 34-53: the locals accounts, outcome and income are computed from
\* the source; before is the taxonomy when the call started
SetTaxonomyBegin(src) ==
    /\ swap.pc = "idle"
    /\ swap.n < MaxSwaps
    /\ swap' = [pc |-> "56",
                accounts |-> StripNonEmpty(_coerce_iter(FirstTruthy(src.accounts))),
                outcome |-> StripNonEmpty(_coerce_iter(FirstTruthy(src.outcome_categories))),
                income |-> StripNonEmpty(_coerce_iter(FirstTruthy(src.income_categories))),
                before |-> taxonomy,
                n |-> swap.n + 1]

\* a call of set_taxonomy made while a message is handled
SetTaxonomyCall(src) ==
    /\ SetTaxonomyBegin(src)
    /\ UNCHANGED <<call, taxonomy, ids, handler>>

\* line 56
SetAccounts ==
    /\ swap.pc = "56"
    /\ taxonomy' = [taxonomy EXCEPT !.accounts = swap.accounts]
    /\ swap' = [swap EXCEPT !.pc = "57"]
    /\ UNCHANGED <<call, ids, handler>>

\* line 57
SetOutcome ==
    /\ swap.pc = "57"
    /\ taxonomy' = [taxonomy EXCEPT !.outcome_categories = swap.outcome]
    /\ swap' = [swap EXCEPT !.pc = "58"]
    /\ UNCHANGED <<call, ids, handler>>

\* a mutant that leaves the income categories as they were when the source
\* holds none
SetIncome_KeepWhenEmpty ==
    /\ swap.pc = "58"
    /\ taxonomy' = IF swap.income = <<>> THEN taxonomy
                   ELSE [taxonomy EXCEPT !.income_categories = swap.income]
    /\ swap' = [NoSwap EXCEPT !.n = swap.n]
    /\ UNCHANGED <<call, ids, handler>>

\* line 58, after which the call returns
SetIncome ==
    /\ swap.pc = "58"
    /\ taxonomy' = [taxonomy EXCEPT !.income_categories = swap.income]
    /\ swap' = [NoSwap EXCEPT !.n = swap.n]
    /\ UNCHANGED <<call, ids, handler>>

SwapInit ==
    /\ fn = "none" /\ args = NoneV /\ ret = NoneV
    /\ taxonomy = LoadedTaxonomy /\ swap = NoSwap /\ ids = ListIds
    /\ pc = "start" /\ schema = NoRecord /\ llm = LlmIdle /\ data = NoRecord /\ raw = NoRecord
    /\ ext = NoRecord /\ err = <<>> /\ saved = FALSE /\ reply = ""

SwapNext ==
    \/ Next
    \/ \E src \in SwapSources : SetTaxonomyCall(src)
    \/ SetAccounts
    \/ SetOutcome
    \/ SetIncome

SpecSwap == SwapInit /\ [][SwapNext]_vars

---------------------------------------------------------------------------
(* Calls of set_taxonomy on every source of SetSources, from every taxonomy *)
(* of Taxonomies, with no message being handled                             *)

SetInit ==
    /\ fn = "none" /\ args \in SetSources /\ ret = NoneV
    /\ taxonomy \in Taxonomies
    /\ swap = NoSwap /\ ids = ListIds /\ HandlerOff

SetCall ==
    /\ fn = "none"
    /\ fn' = "set_taxonomy"
    /\ SetTaxonomyBegin(args)
    /\ UNCHANGED <<args, ret, taxonomy, ids, handler>>

SetNext ==
    \/ SetCall
    \/ SetAccounts
    \/ SetOutcome
    \/ SetIncome

SpecSet == SetInit /\ [][SetNext]_vars

---------------------------------------------------------------------------
(* Properties of enforce_xor_categories, checked under SpecXor *)

XorCalled == fn = "enforce_xor_categories"

\* the candidate lists without the entries outside the allowed sets, order kept
XorKeptOutcome ==
    SelectSeq(OrEmpty(args.outcome), LAMBDA c : c \in args.allowed_outcome)

XorKeptIncome ==
    SelectSeq(OrEmpty(args.income), LAMBDA c : c \in args.allowed_income)

\* what the two heuristics find in the description of the call
XorTextIncome == _infer_income_from_desc(args.description, args.allowed_income)

XorTextOutcome == _infer_outcome_from_desc(args.description, args.allowed_outcome)

\* the description contains a keyword of an income rule whose category is allowed
XorIncomeKeywordAllowed ==
    \E i \in 1..Len(KEYWORD_TO_INCOME) :
        /\ AnyIn(KEYWORD_TO_INCOME[i][1], _strip_accents_lower(args.description))
        /\ KEYWORD_TO_INCOME[i][2] \in args.allowed_income

\* C1: enforce_xor_categories never returns a pair with both outputs
\* non-empty: exactly one output is a non-empty list and the other None, or
\* both are None.
C1_XorExclusive ==
    XorCalled =>
        \/ Truthy(ret[1]) /\ ret[2] = NoneV
        \/ ret[1] = NoneV /\ Truthy(ret[2])
        \/ ret[1] = NoneV /\ ret[2] = NoneV

\* C1 witness: both candidate lists survive filtering, the text gives no hint,
\* and only the income side is returned.
C1_Witness ==
    /\ XorCalled
    /\ XorKeptOutcome # <<>> /\ XorKeptIncome # <<>>
    /\ ~Truthy(XorTextIncome) /\ ~Truthy(XorTextOutcome)
    /\ ret = <<NoneV, Just(XorKeptIncome)>>

\* C3 (as claimed): every category returned, on either side, is a member of
\* the corresponding allowed set; with an empty allowed set the corresponding
\* output is None.
C3_OutputsAllowed ==
    XorCalled =>
        /\ Range(OrEmpty(ret[1])) \subseteq args.allowed_outcome
        /\ Range(OrEmpty(ret[2])) \subseteq args.allowed_income

\* C4 (as claimed): when both candidate lists are populated the text alone
\* decides: income hint -> (None, income list); else outcome hint ->
\* (outcome list, None); else (None, income list).
C4_Original ==
    XorCalled /\ Truthy(args.outcome) /\ Truthy(args.income) =>
        ret = IF Truthy(XorTextIncome) THEN <<NoneV, OrNone(XorKeptIncome)>>
              ELSE IF Truthy(XorTextOutcome) THEN <<OrNone(XorKeptOutcome), NoneV>>
              ELSE <<NoneV, OrNone(XorKeptIncome)>>

\* C4 (amended): when both candidate lists are still non-empty after filtering
\* to the allowed sets, the text alone decides, income hint first; a
\* description containing a keyword of an allowed income category wins even
\* if the outcome heuristic matches too.
C4_BothPopulatedByText ==
    XorCalled /\ XorKeptOutcome # <<>> /\ XorKeptIncome # <<>> =>
        /\ ret = IF Truthy(XorTextIncome) THEN <<NoneV, Just(XorKeptIncome)>>
                 ELSE IF Truthy(XorTextOutcome) THEN <<Just(XorKeptOutcome), NoneV>>
                 ELSE <<NoneV, Just(XorKeptIncome)>>
        /\ XorIncomeKeywordAllowed => ret = <<NoneV, Just(XorKeptIncome)>>

\* C4 witness: both lists survive filtering, both heuristics match the
\* description, and the income list is returned.
C4_Witness ==
    /\ XorCalled
    /\ XorKeptOutcome # <<>> /\ XorKeptIncome # <<>>
    /\ Truthy(XorTextIncome) /\ Truthy(XorTextOutcome)
    /\ ret = <<NoneV, Just(XorKeptIncome)>>

\* C5 (as claimed): a populated candidate outcome list with an empty or None
\* income list yields (outcome list filtered, None) for every description,
\* also when filtering removes every entry; and symmetrically.
C5_Original ==
    /\ XorCalled /\ Truthy(args.outcome) /\ ~Truthy(args.income) =>
           ret = <<OrNone(XorKeptOutcome), NoneV>>
    /\ XorCalled /\ Truthy(args.income) /\ ~Truthy(args.outcome) =>
           ret = <<NoneV, OrNone(XorKeptIncome)>>

\* C5 (amended): if at least one entry of the candidate outcome list is in
\* allowed_outcome and the candidate income list is empty or None, the result
\* is (outcome list filtered to allowed_outcome in order, None) for every
\* description; and symmetrically for income.
C5_OneSidePassThrough ==
    /\ XorCalled /\ XorKeptOutcome # <<>> /\ ~Truthy(args.income) =>
           ret = <<Just(XorKeptOutcome), NoneV>>
    /\ XorCalled /\ XorKeptIncome # <<>> /\ ~Truthy(args.outcome) =>
           ret = <<NoneV, Just(XorKeptIncome)>>

\* C5 witness: an outcome list that filtering shortens, no income list, a
\* description with an allowed income keyword, and income_out is None.
C5_Witness ==
    /\ XorCalled
    /\ ~Truthy(args.income)
    /\ XorKeptOutcome # <<>> /\ Len(XorKeptOutcome) < Len(OrEmpty(args.outcome))
    /\ XorIncomeKeywordAllowed
    /\ ret = <<Just(XorKeptOutcome), NoneV>>

\* C6: with neither candidate list populated the outcome heuristic is tried
\* first, the income heuristic second, and without a hint the result is
\* (None, None).
C6_NeitherInfers ==
    XorCalled /\ ~Truthy(args.outcome) /\ ~Truthy(args.income) =>
        ret = IF Truthy(XorTextOutcome) THEN <<Just(<<XorTextOutcome.val>>), NoneV>>
              ELSE IF Truthy(XorTextIncome) THEN <<NoneV, Just(<<XorTextIncome.val>>)>>
              ELSE <<NoneV, NoneV>>

\* C6 witness: no candidate list, both heuristics match the description, and
\* the outcome category is returned.
C6_Witness ==
    /\ XorCalled
    /\ ~Truthy(args.outcome) /\ ~Truthy(args.income)
    /\ Truthy(XorTextOutcome) /\ Truthy(XorTextIncome)
    /\ ret = <<Just(<<XorTextOutcome.val>>), NoneV>>

\* C28: enforce_xor_categories is idempotent for a fixed description and
\* fixed allowed sets: applied to its own output pair it returns that pair.
C28_XorIdempotent ==
    XorCalled =>
        enforce_xor_categories(args.description, ret[1], ret[2],
                               args.allowed_outcome, args.allowed_income) = ret

\* C28 witness: both candidate lists survive filtering and both heuristics
\* match the description; the pair returned is not the pair given.
C28_Witness ==
    /\ XorCalled
    /\ XorKeptOutcome # <<>> /\ XorKeptIncome # <<>>
    /\ Truthy(XorTextIncome) /\ Truthy(XorTextOutcome)
    /\ ret # <<args.outcome, args.income>>
    /\ Truthy(ret[2])
    /\ enforce_xor_categories(args.description, ret[1], ret[2],
                              args.allowed_outcome, args.allowed_income) = ret

---------------------------------------------------------------------------
(* Properties of _infer_outcome_from_desc, checked under SpecInfer *)

InferCalled == fn = "_infer_outcome_from_desc"

\* the description of the call, without accents and in lower case
InferText == _strip_accents_lower(args.description)

\* rule i of KEYWORD_TO_OUTCOME matches the text and its category is allowed
InferRuleApplies(i) ==
    /\ \E k \in KEYWORD_TO_OUTCOME[i][1] : Contains(InferText, k)
    /\ KEYWORD_TO_OUTCOME[i][2] \in args.allowed

\* the text holds a dining-out keyword and the dining-out category is allowed
InferDiningApplies ==
    /\ \E k \in EATING_OUT_HINTS : Contains(InferText, k)
    /\ "Eating Out and Takeway" \in args.allowed

\* C24: the outcome heuristic returns the dining-out category when the text
\* holds a dining-out keyword and that category is allowed, whatever else the
\* text holds; otherwise the category of the first rule of
\* KEYWORD_TO_OUTCOME, in table order, whose keywords match and whose
\* category is allowed, rules with a category that is not allowed being
\* skipped; and None when there is no such rule.
C24_FirstMatch ==
    InferCalled =>
        IF InferDiningApplies THEN ret = Just("Eating Out and Takeway")
        ELSE IF \E i \in 1..Len(KEYWORD_TO_OUTCOME) : InferRuleApplies(i)
        THEN \E i \in 1..Len(KEYWORD_TO_OUTCOME) :
                /\ InferRuleApplies(i)
                /\ \A j \in 1..(i - 1) : ~InferRuleApplies(j)
                /\ ret = Just(KEYWORD_TO_OUTCOME[i][2])
        ELSE ret = NoneV

\* C24 witness: the text matches two rules, the category of the earlier one
\* is not allowed, and the category of the later one is returned.
C24_Witness ==
    /\ InferCalled
    /\ ~InferDiningApplies
    /\ \E i, j \in 1..Len(KEYWORD_TO_OUTCOME) :
          /\ i < j
          /\ \E k \in KEYWORD_TO_OUTCOME[i][1] : Contains(InferText, k)
          /\ KEYWORD_TO_OUTCOME[i][2] \notin args.allowed
          /\ InferRuleApplies(j)
          /\ ret = Just(KEYWORD_TO_OUTCOME[j][2])

---------------------------------------------------------------------------
(* Properties of _canon_list, checked under SpecCanon *)

CanonCalled == fn = "_canon_list"

\* the non-empty trimmed tokens of the input, in input order
CanonToks ==
    SelectSeq([i \in 1..Len(args.src) |-> Strip(args.src[i])], LAMBDA t : t # "")

\* token t matches a member of the allowed list, letter case ignored
CanonMatches(t) == \E i \in 1..Len(args.allowed) : Lower(args.allowed[i]) = Lower(t)

\* the tokens that match no member of the allowed list
CanonOffending == SelectSeq(CanonToks, LAMBDA t : ~CanonMatches(t))

\* the position in CanonToks of the first token that is k in lower case
CanonFirstSeen(k) ==
    CHOOSE n \in 1..Len(CanonToks) :
        /\ Lower(CanonToks[n]) = k
        /\ \A m \in 1..(n - 1) : Lower(CanonToks[m]) # k

\* C8: if any non-empty token matches no member of the allowed list,
\* _canon_list raises "unknown category" naming every offending token, in
\* input order, and returns no partial list.
C8_AllOrNothing ==
    CanonCalled /\ args.v.kind \in {"str", "list"} /\ CanonOffending # <<>> =>
        /\ ret.raised
        /\ ret.msg = "unknown category: " \o Join(CanonOffending, ", ")

\* C8 witness: an input with a matching token and two offending ones raises.
C8_Witness ==
    /\ CanonCalled
    /\ Len(CanonOffending) >= 2
    /\ \E i \in 1..Len(CanonToks) : CanonMatches(CanonToks[i])
    /\ ret.raised

\* C10: when every non-empty trimmed token matches the allowed list case-
\* insensitively, _canon_list returns the tokens in the spelling of the
\* allowed list, without duplicates, in first-seen order, and None when no
\* token remains.
C10_CanonicalSpelling ==
    CanonCalled /\ args.v.kind # "other" /\ CanonOffending = <<>> =>
        /\ ~ret.raised
        /\ CanonToks = <<>> => ret.val = NoneV
        /\ CanonToks # <<>> =>
            /\ ~ret.val.none
            /\ LET r == ret.val.val
               IN  /\ \A i \in 1..Len(r) : r[i] \in Range(args.allowed)
                   /\ {Lower(r[i]) : i \in 1..Len(r)} =
                          {Lower(CanonToks[n]) : n \in 1..Len(CanonToks)}
                   /\ \A i, j \in 1..Len(r) : i # j => r[i] # r[j]
                   /\ \A i, j \in 1..Len(r) :
                          i < j => CanonFirstSeen(Lower(r[i])) < CanonFirstSeen(Lower(r[j]))

\* C10 witness: a comma-separated string with padding, a repeated token and
\* tokens in another letter case returns two official spellings.
C10_Witness ==
    /\ CanonCalled
    /\ args.v.kind = "str"
    /\ CanonOffending = <<>>
    /\ Len(CanonToks) = 3
    /\ \E n \in 1..Len(args.src) : args.src[n] # Strip(args.src[n])
    /\ ~ret.raised /\ ~ret.val.none
    /\ Len(ret.val.val) = 2
    /\ \E i \in 1..2 : ret.val.val[i] \notin Range(CanonToks)

\* the input is a non-empty list of distinct members of the allowed list
CanonAlreadyCanonical ==
    /\ args.v.kind = "list"
    /\ args.src # <<>>
    /\ \A i \in 1..Len(args.src) : args.src[i] \in Range(args.allowed)
    /\ \A i, j \in 1..Len(args.src) : i # j => args.src[i] # args.src[j]

\* C11 (as claimed): canonicalizing a list of distinct members of the allowed
\* list returns the same list: same elements, same spelling, same order, also
\* when the allowed list holds two entries that differ only in letter case.
C11_Idempotent ==
    CanonCalled /\ CanonAlreadyCanonical => ret = Return(Just(args.src))


---------------------------------------------------------------------------
(* Properties of ExtractedTx validation, checked under SpecValidate *)

ValidateCalled == fn = "model_validate"

\* no field validator of the record fails
ValidateFieldsPass ==
    /\ ~description_not_empty(args.description).raised
    /\ ~amount_positive(args.amount).raised
    /\ ~currency_ok(args.currency).raised
    /\ ~account_ok(args.account).raised
    /\ ~date_in_reasonable_range(args.date).raised
    /\ ~canon_outcome(args.outcome_categories).raised
    /\ ~canon_income(args.income_categories).raised

\* the category fields after canonicalization
ValidateCanonOutcome == canon_outcome(args.outcome_categories).val

ValidateCanonIncome == canon_income(args.income_categories).val

\* C2: a record is accepted only with exactly one of outcome_categories and
\* income_categories non-empty after canonicalization; when every field
\* passes, both sides non-empty is rejected as "cannot be both income and
\* outcome" and both sides empty or None as "provide at least one".
C2_ValidatedXor ==
    ValidateCalled =>
        /\ ret.ok =>
            \/ Truthy(ret.tx.outcome_categories) /\ ret.tx.income_categories = NoneV
            \/ ret.tx.outcome_categories = NoneV /\ Truthy(ret.tx.income_categories)
        /\ ValidateFieldsPass /\ Truthy(ValidateCanonOutcome) /\ Truthy(ValidateCanonIncome) =>
            /\ ~ret.ok
            /\ ret.errors = <<"a transaction cannot be both income and outcome">>
        /\ ValidateFieldsPass /\ ~Truthy(ValidateCanonOutcome) /\ ~Truthy(ValidateCanonIncome) =>
            /\ ~ret.ok
            /\ Len(ret.errors) = 1
            /\ Contains(ret.errors[1], "provide at least one")

\* C2 witness: a record whose fields all pass and whose two category lists
\* are both non-empty after canonicalization is rejected as ambiguous.
C2_Witness ==
    /\ ValidateCalled
    /\ ValidateFieldsPass
    /\ Truthy(ValidateCanonOutcome) /\ Truthy(ValidateCanonIncome)
    /\ ~ret.ok
    /\ Contains(ret.errors[1], "cannot be both income and outcome")

\* the category fields of the record canonicalize without an error
ValidateCategoriesPass ==
    /\ ~canon_outcome(args.outcome_categories).raised
    /\ ~canon_income(args.income_categories).raised

\* the first failure of the record in the order description, amount,
\* currency, account, date, cross-field classification
ValidateFirstFailure ==
    IF description_not_empty(args.description).raised
    THEN description_not_empty(args.description).msg
    ELSE IF amount_positive(args.amount).raised
    THEN amount_positive(args.amount).msg
    ELSE IF currency_ok(args.currency).raised
    THEN currency_ok(args.currency).msg
    ELSE IF account_ok(args.account).raised
    THEN account_ok(args.account).msg
    ELSE IF date_in_reasonable_range(args.date).raised
    THEN date_in_reasonable_range(args.date).msg
    ELSE xor_income_outcome(ValidateCanonOutcome, ValidateCanonIncome).msg

\* C17 (as claimed): validation is fail-fast in the order description,
\* amount, currency, account, date, cross-field classification: a rejected
\* record is reported with the single first applicable failure, not with an
\* aggregate of all of them.
C17_FailFast ==
    ValidateCalled /\ ValidateCategoriesPass /\ ~ret.ok =>
        ret.errors = <<ValidateFirstFailure>>

---------------------------------------------------------------------------
(* Properties of the amount and date validators, checked under SpecAmount   *)
(* and SpecDate                                                             *)

AmountCalled == fn = "amount_positive"

\* the third fractional digit of the amount of the call
AmountThirdDigit == args.v % 10

\* C14: amount validation rejects every amount <= 0; any other amount comes
\* back with two fractional digits, rounded half-up: up when the third
\* fractional digit is 5 or more, down when it is 4 or less.
C14_RoundHalfUp ==
    AmountCalled =>
        /\ args.v <= 0 => ret = Raise("amount must be > 0")
        /\ args.v > 0 =>
            /\ ~ret.raised
            /\ AmountThirdDigit >= 5 => ret.val = (args.v \div 10) + 1
            /\ AmountThirdDigit <= 4 => ret.val = args.v \div 10

\* C14 witness: 1.005 validates and becomes 1.01.
C14_Witness == AmountCalled /\ args.v = 1005 /\ ret = Return(101)

\* C15 (as claimed): every amount that passes validation is stored, after
\* rounding to two fractional digits, as a quantity strictly greater than 0.
C15_StoredPositive == AmountCalled /\ ~ret.raised => ret.val > 0

DateCalled == fn = "date_in_reasonable_range"

\* C16: date validation accepts exactly the dates from 366 days before today
\* to 3 days after today, both included; any other date is rejected as too
\* far in the past or in the future.
C16_DateWindow ==
    DateCalled =>
        /\ (0 - 366 <= args.d /\ args.d <= 3) => ret = Return(args.d)
        /\ args.d > 3 => ret = Raise("date too far in the future")
        /\ args.d < 0 - 366 => ret = Raise("date too far in the past")

\* C16 witness: the date three days after today validates.
C16_Witness == DateCalled /\ args.d = 3 /\ ~ret.raised

---------------------------------------------------------------------------
(* Properties of the message pipeline, checked under Spec *)

\* the message went through validation and a validated record came out
Validated == ext # NoRecord /\ ext.ok

\* the candidate record names an income category of the taxonomy, only such
\* categories, and no outcome category
CandidateIncomeOnly ==
    /\ data # NoRecord
    /\ ~Truthy(data.outcome_categories)
    /\ Truthy(data.income_categories)
    /\ Range(data.income_categories.val) \subseteq Range(taxonomy.income_categories)

\* token t resolves to a member of the list allowed of the taxonomy
Resolves(t, allowed) == \E i \in 1..Len(allowed) : Lower(allowed[i]) = Lower(Strip(t))

\* the candidate record holds a category that resolves to no member of the
\* taxonomy
CandidateHasUnknown ==
    /\ data # NoRecord
    /\ \/ \E t \in Range(OrEmpty(data.outcome_categories)) :
              /\ ~Resolves(t, taxonomy.outcome_categories)
              /\ Lower(Strip(t)) \notin DOMAIN OUTCOME_SYNONYMS
       \/ \E t \in Range(OrEmpty(data.income_categories)) :
              ~Resolves(t, taxonomy.income_categories)

\* C7 (as claimed): keyword inference never overrides the record: a candidate
\* with a usable income category and no outcome category validates, whatever
\* the description, with exactly that income category and no outcome category.
C7_GapFillerOnly ==
    Validated /\ CandidateIncomeOnly =>
        /\ ext.tx.outcome_categories = NoneV
        /\ Truthy(ext.tx.income_categories)
        /\ Range(ext.tx.income_categories.val) = Range(data.income_categories.val)

\* C9 (as claimed): a candidate record with a category that resolves to no
\* member of the taxonomy never yields a validated transaction.
C9_UnknownSurfaced == CandidateHasUnknown => ~Validated

\* the message went through validation, whatever came out
ValidationRan == ext # NoRecord

\* C13: a record whose account is not in taxonomy.accounts when it is
\* validated is rejected with an unsupported-account failure, nothing is
\* saved for it and the user is told that the account is not valid; the
\* account of every validated transaction is a member of taxonomy.accounts,
\* and only validated transactions are saved.
C13_AccountInTaxonomy ==
    /\ ValidationRan /\ Strip(raw.account) \notin Range(taxonomy.accounts) =>
        /\ ~ext.ok
        /\ InMessage("unsupported account: " \o Strip(raw.account))
        /\ ~saved
        /\ pc = "done" => reply = "Account non valido"
    /\ Validated => ext.tx.account \in Range(taxonomy.accounts)
    /\ saved => Validated

\* C13 witness: the candidate names the account Bank, which a loaded
\* taxonomy does not hold; the message is answered with the account reply
\* and nothing was saved.
C13_Witness ==
    /\ data # NoRecord /\ data.account = "Bank"
    /\ taxonomy = LoadedTaxonomy
    /\ ValidationRan /\ ~ext.ok
    /\ pc = "done" /\ reply = "Account non valido" /\ ~saved

\* C12 (as claimed): with the taxonomy accounts [Cash], expense [Groceries,
\* Dining], income [Salary], the candidate with account cash, amount 12.999,
\* expense categories [groceries] and the description "bought bread" yields a
\* validated record with account Cash, amount 13.00, expense categories
\* [Groceries] and no income categories.
C12_LetterCaseScenario ==
    taxonomy = ScenarioTaxonomy /\ data = ScenarioCandidate /\ ValidationRan =>
        /\ ext.ok
        /\ ext.tx.account = "Cash"
        /\ ext.tx.amount = 1300
        /\ ext.tx.outcome_categories = Just(<<"Groceries">>)
        /\ ext.tx.income_categories = NoneV

\* the entries of a list are pairwise distinct
Distinct(l) == \A i, j \in 1..Len(l) : i # j => l[i] # l[j]

\* C18 (as claimed): a validated transaction has at most 2 expense
\* categories, all distinct members of the taxonomy, and at most 1 income
\* category, a member of the taxonomy.
C18_CategoryCaps ==
    Validated =>
        LET out == OrEmpty(ext.tx.outcome_categories)
            inc == OrEmpty(ext.tx.income_categories)
        IN  /\ Len(out) <= 2 /\ Distinct(out)
            /\ Range(out) \subseteq Range(taxonomy.outcome_categories)
            /\ Len(inc) <= 1
            /\ Range(inc) \subseteq Range(taxonomy.income_categories)

\* the description contains no keyword of either heuristic
NoKeyword(description) ==
    LET text == _strip_accents_lower(description)
    IN  /\ ~AnyIn(EATING_OUT_HINTS, text)
        /\ \A i \in 1..Len(KEYWORD_TO_OUTCOME) : ~AnyIn(KEYWORD_TO_OUTCOME[i][1], text)
        /\ \A i \in 1..Len(KEYWORD_TO_INCOME) : ~AnyIn(KEYWORD_TO_INCOME[i][1], text)

\* the candidate has no category on either side and its description gives
\* no hint
CandidateUnclassified ==
    /\ data # NoRecord
    /\ ~Truthy(data.outcome_categories) /\ ~Truthy(data.income_categories)
    /\ NoKeyword(data.description)

\* C23 (as claimed): a candidate with both category fields empty and a
\* description matching no heuristic keyword is rejected, whatever the
\* taxonomy holds: no default category is filled in to make it validate.
C23_NoDefaultCategory ==
    CandidateUnclassified /\ ValidationRan => ~ext.ok

\* the replies of the except branch of handle_text
ErrorReplies ==
    {"Account non valido", "Categoria non riconosciuta",
     "L'importo deve essere maggiore di 0", "La data sembra troppo lontana",
     "Non sono riuscito a registrare"}

\* C25: once a stage of handle_text has failed, processing of the message
\* stops: a record whose validation failed is never saved, after a failure
\* the only step is the error reply, which leaves the record, the result of
\* validation and the saved flag as they are, and the reply of a failed
\* message is an error reply.
C25_StopsAtFailure ==
    /\ [](saved => Validated)
    /\ [](pc = "done" /\ err # <<>> => reply \in ErrorReplies)
    /\ [][err # <<>> =>
              /\ pc = "error" /\ pc' = "done"
              /\ reply' = user_msg
              /\ UNCHANGED <<data, raw, ext, err, saved>>]_vars

\* C25 witness: validation failed for a record with a non-positive amount,
\* nothing was saved and the message was answered with the amount reply.
C25_Witness ==
    /\ ValidationRan /\ ~ext.ok
    /\ InMessage("amount must be > 0")
    /\ pc = "done" /\ ~saved
    /\ reply = "L'importo deve essere maggiore di 0"

\* C26 (as claimed): the error reply is sent only for messages for which no
\* record was saved: once save_transaction has returned for a message, the
\* user is never told that registration failed.
C26_NoErrorAfterSave ==
    saved => reply \notin ErrorReplies

---------------------------------------------------------------------------
(* Properties of the taxonomy store under replacement, checked under        *)
(* SpecSwap                                                                 *)

\* the taxonomy the call of set_taxonomy under way is writing
SwapNew ==
    [accounts |-> swap.accounts,
     outcome_categories |-> swap.outcome,
     income_categories |-> swap.income]

\* a stage of handle_text that reads the taxonomy after the schema was built
ReadingStage == Extract \/ Normalize \/ EnforceXor \/ Validate

\* C19 (as claimed): replacement is one atomic swap: a stage of handle_text
\* that reads the store while set_taxonomy runs sees the three lists of the
\* taxonomy before the call or the three lists of the new one, never a mix.
C19_AtomicSwap ==
    [][(BuildSchema \/ ReadingStage) /\ swap.pc # "idle" =>
           taxonomy = swap.before \/ taxonomy = SwapNew]_vars

\* the response schema was built from the taxonomy loaded at start, before
\* any replacement began
SchemaOfLoaded == schema = LoadedTaxonomy

\* C20 (as claimed): every stage of one message reads the accounts and
\* category sets the response schema of that message was built from, also
\* when set_taxonomy has run from start to end while the handler awaited
\* the extractor.
C20_OneSnapshot ==
    [][ReadingStage /\ SchemaOfLoaded /\ swap.pc = "idle" =>
           schema = _build_schema]_vars

---------------------------------------------------------------------------
(* Properties of set_taxonomy, checked under SpecSet *)

\* the call of set_taxonomy has returned
SetDone == fn = "set_taxonomy" /\ swap.pc = "idle"

\* the entries the source gives for one set: those of the first of its three
\* keys that holds anything, a single string being one entry
SetGiven(keys) ==
    LET held == {k \in 1..3 : \/ (keys[k].kind = "str" /\ keys[k].s # "")
                              \/ (keys[k].kind = "list" /\ keys[k].l # <<>>)}
    IN  IF held = {} THEN <<>>
        ELSE LET k == CHOOSE k \in held : \A h \in held : k <= h
             IN  IF keys[k].kind = "str" THEN <<keys[k].s>> ELSE keys[k].l

\* the trimmed non-empty entries the source gives for one set, in source order
SetExpected(keys) ==
    SelectSeq([i \in 1..Len(SetGiven(keys)) |-> Strip(SetGiven(keys)[i])],
              LAMBDA t : t # "")

\* C21: after set_taxonomy each of the three lists holds exactly the trimmed
\* non-empty entries of the new source, in source order, and nothing of its
\* previous content (a set missing from the source becomes empty); the three
\* list objects of the singleton are the ones it held before the call.
C21_ReplacedInPlace ==
    /\ SetDone =>
        /\ taxonomy.accounts = SetExpected(args.accounts)
        /\ taxonomy.outcome_categories = SetExpected(args.outcome_categories)
        /\ taxonomy.income_categories = SetExpected(args.income_categories)
    /\ ids = ListIds

\* C21 witness: a source without income categories was applied to a taxonomy
\* that held some, and the income list is now empty.
C21_Witness ==
    /\ SetDone
    /\ SetGiven(args.income_categories) = <<>>
    /\ SetGiven(args.accounts) # <<>>
    /\ swap.n = 1
    /\ taxonomy.income_categories = <<>>
    /\ taxonomy.accounts # <<>>

\* C22 (as claimed): every entry of the three lists of the taxonomy is
\* non-empty after trimming and occurs only once within its list.
C22_UniqueNonEmpty ==
    \A l \in {taxonomy.accounts, taxonomy.outcome_categories, taxonomy.income_categories} :
        /\ \A i \in 1..Len(l) : Strip(l[i]) # ""
        /\ Distinct(l)

---------------------------------------------------------------------------
(* Properties of extract_transaction, checked under SpecExtract *)

\* extract_transaction has returned or raised
ExtractOver == pc \in {"extracted", "error"}

\* C27: extract_transaction calls _call_llm at most twice per message, the
\* second time only after the first attempt raised; a call of _call_llm
\* issues at most two completion requests, the second only after
\* UnsupportedParamsError; a failure of the fallback attempt propagates; a
\* content that is not a JSON object is never retried; and
\* extract_transaction always comes to an end.
C27_BoundedAttempts ==
    /\ [](llm.calls <= 2 /\ llm.reqs <= 2)
    /\ [][llm'.calls = llm.calls + 1 /\ llm.calls = 1 => llm.pc = "raised"]_vars
    /\ [][llm'.calls = llm.calls /\ llm'.reqs = llm.reqs + 1 =>
              llm.pc = "unsupported" /\ llm.reqs = 1]_vars
    /\ [][llm.pc = "raised" /\ llm.calls = 2 => pc' = "error" /\ llm' = llm]_vars
    /\ [][llm.pc = "content" => ExtractOver' /\ llm' = llm]_vars
    /\ [][ExtractOver => ExtractOver' /\ llm' = llm]_vars
    /\ (pc = "awaiting" ~> ExtractOver)

\* C27 witness: both attempts needed a second request and the fallback
\* attempt raised; extract_transaction raised after two calls of two
\* requests.
C27_Witness ==
    /\ pc = "error" /\ data = NoRecord
    /\ llm = [pc |-> "raised", calls |-> 2, reqs |-> 2]

====
